---- MODULE Spec2Model ----
(***************************************************************************)
(* HealthcareSystem (backendcould.py): the in-memory document `data`, the  *)
(* JSON file it is saved to after every successful mutation, and the       *)
(* operations of the store.                                                *)
(*                                                                         *)
(* Encoding of Python values:                                              *)
(*   - a dict is a function; a dict key that is the int n is <<"int", n>>, *)
(*     a dict key that is the string of n's decimal digits is <<"str", n>>;*)
(*   - None is <<>> and a value v in an Optional position is <<v>>;        *)
(*   - datetime.now().isoformat() is the reading of the clock `now`;       *)
(*   - unit_price is carried in hundredths.                                *)
(***************************************************************************)
EXTENDS Integers, Sequences, FiniteSets, TLC

\* Bounds of the model.
MaxRecords == 2   \* records created over all collections and instances

\* Inputs the operations are called with.
Usernames == {"admin", "doctor"}
Passwords == {"admin123", "doctor123"}
Roles == {"admin"}
Ages == {35}
Quantities == {5, 10, 20}
\* the expiry day add_medicine is called with, as <<year, month, day>>
ExpiryDays == {<<2024, 6, 30>>}
\* the days datetime.date.today() may be: the day before, the day of and the
\* day after the expiry, and the first day of the next year
TodayDays == {<<2024, 6, 29>>, <<2024, 6, 30>>, <<2024, 7, 1>>, <<2025, 1, 1>>}
\* **kwargs of update_patient and update_doctor
PatientKwargs ==
    {[is_active |-> TRUE],
     [gender |-> "Female", id |-> 3, created_at |-> 9, nickname |-> "Al"]}
DoctorKwargs == {[shift |-> "Night", id |-> 3, created_at |-> 9, room |-> "B2"]}
\* ids a caller may pass
IdArgs == {1, 2, 3}
\* readings of the clock, in order
Instants == {0, 1}
\* what open(self.data_file, 'w') and the write after it can meet: "ok";
\* "readonly", open raises and the file is left as it was; "full", open
\* truncates the file and the write raises
DiskStates == {"ok", "readonly", "full"}

VARIABLES
    data,          \* self.data: the in-memory document
    blob,          \* the data file: <<>> when it does not exist, else <<text>>
    disk,          \* whether the data file can be written now
    now,           \* the wall clock
    result,        \* the last call: its name and what it returned
    issued,        \* per kind, the ids get_next_id returned in this instance
    issuedBefore,  \* per kind, the ids handed out by earlier instances
    preAssign      \* per occupied bed, the bed record just before its assign

vars == <<data, blob, disk, now, result, issued, issuedBefore, preAssign>>

Kinds == {"user", "patient", "doctor", "bed", "medicine"}

None == <<>>
Some(v) == <<v>>

IntKey(n) == <<"int", n>>
StrKey(n) == <<"str", n>>

EmptyDict == <<>>

\* d = {k: v}: the collection replaced rather than extended
Put_alone(d, k, v) == [x \in {k} |-> v]

\* d[k] = v
Put(d, k, v) == [x \in (DOMAIN d) \cup {k} |-> IF x = k THEN v ELSE d[x]]

\* dict.get(k): None when k is no key
Get(d, k) == IF k \in DOMAIN d THEN Some(d[k]) ELSE None

Values(d) == {d[k] : k \in DOMAIN d}

\* d without the key k
Without(d, k) == [x \in (DOMAIN d) \ {k} |-> d[x]]

----------------------------------------------------------------------------
\* the fresh structure, had its counters started at 0
EmptyData_from_zero ==
    [users |-> EmptyDict, patients |-> EmptyDict, doctors |-> EmptyDict,
     beds |-> EmptyDict, medicines |-> EmptyDict,
     next_ids |-> [k \in Kinds |-> 0]]

\* load_data's fresh structure
EmptyData ==
    [users |-> EmptyDict, patients |-> EmptyDict, doctors |-> EmptyDict,
     beds |-> EmptyDict, medicines |-> EmptyDict,
     next_ids |-> [k \in Kinds |-> 1]]

\* json.dump writes every dict key as a string: the int key n becomes "n".
json_key(k) == IF k[1] = "int" THEN StrKey(k[2]) ELSE k

\* One collection as json.dump writes it: the members in the dict's order,
\* which is the members loaded from the file (string keys) and then the
\* members this instance added (int keys, written as strings).
json_dump_collection(d) ==
    LET loaded == {k \in DOMAIN d : k[1] = "str"}
        added == {k \in DOMAIN d : k[1] = "int"}
    IN  <<[s \in loaded |-> d[s]],
          [s \in {json_key(k) : k \in added} |-> d[IntKey(s[2])]]>>

\* json.load of one collection: string keys, the last of two equal keys kept.
json_load_collection(members) ==
    [s \in (DOMAIN members[1]) \cup (DOMAIN members[2]) |->
        IF s \in DOMAIN members[2] THEN members[2][s] ELSE members[1][s]]

\* json.dump(self.data): the text of the file. Usernames are strings
\* already; values (int, str, bool, None) are written as they are.
json_dump(doc) ==
    [users |-> doc.users,
     patients |-> json_dump_collection(doc.patients),
     doctors |-> json_dump_collection(doc.doctors),
     beds |-> json_dump_collection(doc.beds),
     medicines |-> json_dump_collection(doc.medicines),
     next_ids |-> doc.next_ids]

\* json.load(f), had the counters not been read back
json_load_fresh_counters(text) ==
    [users |-> text.users,
     patients |-> json_load_collection(text.patients),
     doctors |-> json_load_collection(text.doctors),
     beds |-> json_load_collection(text.beds),
     medicines |-> json_load_collection(text.medicines),
     next_ids |-> [k \in Kinds |-> 1]]

\* json.load(f)
json_load(text) ==
    [users |-> text.users,
     patients |-> json_load_collection(text.patients),
     doctors |-> json_load_collection(text.doctors),
     beds |-> json_load_collection(text.beds),
     medicines |-> json_load_collection(text.medicines),
     next_ids |-> text.next_ids]

\* the text of a file whose write was cut short: no JSON document
Truncated == [users |-> EmptyDict]

\* json.load(f) returns rather than raises
json_parses(text) == DOMAIN text = DOMAIN EmptyData

\* load_data: the file's document when the file exists and parses, else
\* (no file, or the bare except) the fresh one
load_data(file) ==
    IF file # <<>> /\ json_parses(file[1]) THEN json_load(file[1]) ELSE EmptyData

\* save_data: the file after a call that goes through
save_data(doc) == Some(json_dump(doc))

\* the file after save_data() on a medium in state d
write_file(d, doc, file) ==
    CASE d = "ok" -> save_data(doc)
      [] d = "readonly" -> file
      [] d = "full" -> Some(Truncated)

\* save_data, which has no try/except, had it caught the OSError
save_raises_swallowed(d) == FALSE

\* save_data() raises OSError, and so does the operation that called it
save_raises(d) == d # "ok"

\* A str is the sequence of its characters.
Digits == <<"0", "1", "2", "3", "4", "5", "6", "7", "8", "9">>

\* ord(c) for the characters of a date
ord(c) ==
    IF c = "-" THEN 45
    ELSE 47 + (CHOOSE i \in DOMAIN Digits : Digits[i] = c)

\* "%02d" % n
two_digits(n) == <<Digits[((n \div 10) % 10) + 1], Digits[(n % 10) + 1]>>

\* datetime.date(year, month, day).isoformat(): "YYYY-MM-DD"
isoformat(date) ==
    two_digits(date[1] \div 100) \o two_digits(date[1] % 100) \o <<"-">>
        \o two_digits(date[2]) \o <<"-">> \o two_digits(date[3])

\* a <= b on str: the first differing character decides, and a proper
\* prefix is the smaller
RECURSIVE str_le(_, _)
str_le(a, b) ==
    IF a = <<>> THEN TRUE
    ELSE IF b = <<>> THEN FALSE
    ELSE IF ord(Head(a)) # ord(Head(b)) THEN ord(Head(a)) < ord(Head(b))
    ELSE str_le(Tail(a), Tail(b))

\* the expiry_date strings add_medicine is called with
ExpiryDates == {isoformat(date) : date \in ExpiryDays}

\* hashlib.sha256(password.encode()).hexdigest(), first 12 hex digits
hash_password(password) ==
    CASE password = "admin123" -> "240be518fabd"
      [] password = "doctor123" -> "f348d5628621"

\* verify_password, had it accepted every password
verify_password_any(password, hashed) == TRUE

verify_password(password, hashed) == hash_password(password) = hashed

\* get_next_id: the id returned, and the counters after the call
next_id(doc, kind) == doc.next_ids[kind]
\* get_next_id, had it not incremented the counter
bump_next_id_stuck(doc, kind) == doc
bump_next_id(doc, kind) == [doc EXCEPT !.next_ids[kind] = @ + 1]

----------------------------------------------------------------------------
\* the value a call leaves in `result`; user is the "user" entry of a
\* successful login's return value
Ret(op, success, message, user) ==
    [op |-> op, success |-> success, message |-> message, user |-> user,
     raises |-> ""]

\* a call that returned nothing: the exception left it
Raised(op, exception) ==
    [op |-> op, success |-> FALSE, message |-> "", user |-> None,
     raises |-> exception]

Init ==
    /\ data = EmptyData
    /\ blob = <<>>
    /\ disk = "ok"
    /\ now = 0
    /\ result = Ret("__init__", TRUE, "", None)
    /\ issued = [k \in Kinds |-> <<>>]
    /\ issuedBefore = [k \in Kinds |-> {}]
    /\ preAssign = EmptyDict

\* the number of records created so far
Created(doc) ==
    doc.next_ids["user"] + doc.next_ids["patient"] + doc.next_ids["doctor"]
        + doc.next_ids["bed"] + doc.next_ids["medicine"] - 5

\* the bound on the records the model creates
RoomFor(doc) == Created(doc) < MaxRecords

\* an operation that changed self.data and did not call self.save_data()
Saved_in_memory(doc) == data' = doc /\ blob' = blob

\* self.data after the call, and the file after self.save_data()
Saved(doc) == data' = doc /\ blob' = write_file(disk, doc, blob)

\* what the caller gets from an operation whose last statements are
\* self.save_data() and `return r`
Returned(r) ==
    result' = IF save_raises(disk) THEN Raised(r.op, "OSError") ELSE r

\* a call that allocates no id
NoAllocation == UNCHANGED <<issued, issuedBefore>>

\* an early return, had it called self.save_data() first
Unchanged_but_saved == data' = data /\ blob' = save_data(data)

\* a call that returns before it changes anything
Unchanged == UNCHANGED <<data, blob>>

\* the model's record of a get_next_id(kind) call that returned id
Allocated(kind, id) ==
    /\ issued' = [issued EXCEPT ![kind] = Append(@, id)]
    /\ UNCHANGED issuedBefore

\* the update loop, had every update made the record active again
apply_kwargs_reactivating(record, kwargs) ==
    [k \in DOMAIN record |->
        IF k = "is_active" THEN TRUE
        ELSE IF k \in DOMAIN kwargs /\ k \notin {"id", "created_at"}
        THEN kwargs[k] ELSE record[k]]

\* the update loop, had it not protected "id" and "created_at"
apply_kwargs_unprotected(record, kwargs) ==
    [k \in DOMAIN record |-> IF k \in DOMAIN kwargs THEN kwargs[k] ELSE record[k]]

\* for key, value in kwargs.items():
\*     if key in record and key not in ["id", "created_at"]: record[key] = value
apply_kwargs(record, kwargs) ==
    [k \in DOMAIN record |->
        IF k \in DOMAIN kwargs /\ k \notin {"id", "created_at"}
        THEN kwargs[k] ELSE record[k]]

----------------------------------------------------------------------------
\* User management

new_user(user_id, username, password, role) ==
    [id |-> user_id, username |-> username,
     password_hash |-> hash_password(password), role |-> role,
     first_name |-> "Admin", last_name |-> "User", email |-> "", phone |-> "",
     is_active |-> TRUE, created_at |-> now]

\* register_user, had it not looked for the username
register_user_error_unchecked(doc, username) == ""

\* the message register_user fails with, "" when it goes through
register_user_error(doc, username) ==
    IF username \in DOMAIN doc.users THEN "Username already exists" ELSE ""

register_user(username, password, role) ==
    LET error == register_user_error(data, username) IN
    /\ UNCHANGED <<now, disk, preAssign>>
    /\ IF error # ""
       THEN /\ result' = Ret("register_user", FALSE, error, None)
            /\ Unchanged
            /\ NoAllocation
       ELSE /\ RoomFor(data)
            /\ LET user_id == next_id(data, "user")
                   doc == bump_next_id(data, "user")
                   user == new_user(user_id, username, password, role)
               IN  /\ Saved([doc EXCEPT !.users = Put(@, username, user)])
                   /\ Allocated("user", user_id)
                   /\ Returned(Ret("register_user", TRUE,
                                    "User registered successfully", None))

\* what login_user(username, password) returns
login_result(doc, username, password) ==
    IF username \notin DOMAIN doc.users
    THEN Ret("login_user", FALSE, "User not found", None)
    ELSE LET user == doc.users[username]
         IN  IF ~verify_password(password, user.password_hash)
             THEN Ret("login_user", FALSE, "Invalid password", None)
             ELSE IF ~user.is_active
             THEN Ret("login_user", FALSE, "Account deactivated", None)
             ELSE Ret("login_user", TRUE, "Login successful", Some(user))

login_user(username, password) ==
    /\ result' = login_result(data, username, password)
    /\ Unchanged
    /\ NoAllocation
    /\ UNCHANGED <<now, disk, preAssign>>

get_user(username) == Get(data.users, username)

----------------------------------------------------------------------------
\* Patient management

new_patient(patient_id, age) ==
    [id |-> patient_id, first_name |-> "Alice", last_name |-> "Johnson",
     age |-> age, gender |-> "Female", phone |-> "", email |-> "",
     medical_history |-> "", allergies |-> "", is_active |-> TRUE,
     created_at |-> now]

add_patient(age) ==
    /\ RoomFor(data)
    /\ LET patient_id == next_id(data, "patient")
           doc == bump_next_id(data, "patient")
           patient == new_patient(patient_id, age)
       IN  /\ Saved([doc EXCEPT !.patients = Put(@, IntKey(patient_id), patient)])
           /\ Allocated("patient", patient_id)
           /\ Returned(Ret("add_patient", TRUE, "Patient added successfully", None))
    /\ UNCHANGED <<now, disk, preAssign>>

get_patient(patient_id) == Get(data.patients, IntKey(patient_id))

get_all_patients == {p \in Values(data.patients) : p.is_active}

update_patient(patient_id, kwargs) ==
    /\ UNCHANGED <<now, disk, preAssign>>
    /\ NoAllocation
    /\ IF IntKey(patient_id) \notin DOMAIN data.patients
       THEN /\ result' = Ret("update_patient", FALSE, "Patient not found", None)
            /\ Unchanged
       ELSE /\ Saved([data EXCEPT !.patients[IntKey(patient_id)] =
                                      apply_kwargs(@, kwargs)])
            /\ Returned(Ret("update_patient", TRUE,
                             "Patient updated successfully", None))

\* delete_patient, had it left the flag alone
deleted_patient_still_active(patient) == patient

\* the record after delete_patient
deleted_patient(patient) == [patient EXCEPT !.is_active = FALSE]

delete_patient(patient_id) ==
    /\ UNCHANGED <<now, disk, preAssign>>
    /\ NoAllocation
    /\ IF IntKey(patient_id) \notin DOMAIN data.patients
       THEN /\ result' = Ret("delete_patient", FALSE, "Patient not found", None)
            /\ Unchanged
       ELSE /\ Saved([data EXCEPT !.patients[IntKey(patient_id)] =
                                      deleted_patient(@)])
            /\ Returned(Ret("delete_patient", TRUE,
                             "Patient deleted successfully", None))

----------------------------------------------------------------------------
\* Doctor management

new_doctor(doctor_id) ==
    [id |-> doctor_id, first_name |-> "Sarah", last_name |-> "Brown",
     specialization |-> "Cardiology", phone |-> "", email |-> "",
     shift |-> "", license_number |-> "", is_available |-> TRUE,
     created_at |-> now]

add_doctor ==
    /\ RoomFor(data)
    /\ LET doctor_id == next_id(data, "doctor")
           doc == bump_next_id(data, "doctor")
       IN  /\ Saved([doc EXCEPT !.doctors =
                                   Put(@, IntKey(doctor_id), new_doctor(doctor_id))])
           /\ Allocated("doctor", doctor_id)
           /\ Returned(Ret("add_doctor", TRUE, "Doctor added successfully", None))
    /\ UNCHANGED <<now, disk, preAssign>>

get_doctor(doctor_id) == Get(data.doctors, IntKey(doctor_id))

get_all_doctors == Values(data.doctors)

update_doctor(doctor_id, kwargs) ==
    /\ UNCHANGED <<now, disk, preAssign>>
    /\ NoAllocation
    /\ IF IntKey(doctor_id) \notin DOMAIN data.doctors
       THEN /\ result' = Ret("update_doctor", FALSE, "Doctor not found", None)
            /\ Unchanged
       ELSE /\ Saved([data EXCEPT !.doctors[IntKey(doctor_id)] =
                                      apply_kwargs(@, kwargs)])
            /\ Returned(Ret("update_doctor", TRUE,
                             "Doctor updated successfully", None))

----------------------------------------------------------------------------
\* Bed management

new_bed(bed_id) ==
    [id |-> bed_id, bed_number |-> "G001", bed_type |-> "general",
     status |-> "available", ward |-> "Ward A", patient_id |-> None,
     assigned_at |-> None, created_at |-> now]

add_bed ==
    /\ RoomFor(data)
    /\ LET bed_id == next_id(data, "bed")
           doc == bump_next_id(data, "bed")
       IN  /\ Saved([doc EXCEPT !.beds = Put(@, IntKey(bed_id), new_bed(bed_id))])
           /\ Allocated("bed", bed_id)
           /\ Returned(Ret("add_bed", TRUE, "Bed added successfully", None))
    /\ UNCHANGED <<now, disk, preAssign>>

get_bed(bed_id) == Get(data.beds, IntKey(bed_id))

get_all_beds == Values(data.beds)

\* assign_bed, had it refused a soft-deleted patient
assign_bed_error_active_only(doc, bed_id, patient_id) ==
    IF IntKey(bed_id) \notin DOMAIN doc.beds THEN "Bed not found"
    ELSE IF IntKey(patient_id) \notin DOMAIN doc.patients THEN "Patient not found"
    ELSE IF ~doc.patients[IntKey(patient_id)].is_active THEN "Patient not found"
    ELSE IF doc.beds[IntKey(bed_id)].status # "available" THEN "Bed is not available"
    ELSE ""

\* assign_bed, had it not looked at the bed's status
assign_bed_error_any_status(doc, bed_id, patient_id) ==
    IF IntKey(bed_id) \notin DOMAIN doc.beds THEN "Bed not found"
    ELSE IF IntKey(patient_id) \notin DOMAIN doc.patients THEN "Patient not found"
    ELSE ""

\* the message assign_bed fails with, "" when it goes through
assign_bed_error(doc, bed_id, patient_id) ==
    IF IntKey(bed_id) \notin DOMAIN doc.beds THEN "Bed not found"
    ELSE IF IntKey(patient_id) \notin DOMAIN doc.patients THEN "Patient not found"
    ELSE IF doc.beds[IntKey(bed_id)].status # "available" THEN "Bed is not available"
    ELSE ""

\* assign_bed, had it not stamped the assignment
assigned_bed_unstamped(bed, patient_id, time) ==
    [bed EXCEPT !.status = "occupied", !.patient_id = Some(patient_id)]

\* the bed after a successful assign_bed
assigned_bed(bed, patient_id, time) ==
    [bed EXCEPT !.status = "occupied", !.patient_id = Some(patient_id),
                !.assigned_at = Some(time)]

assign_bed(bed_id, patient_id) ==
    LET error == assign_bed_error(data, bed_id, patient_id) IN
    /\ UNCHANGED <<now, disk>>
    /\ NoAllocation
    /\ IF error # ""
       THEN /\ result' = Ret("assign_bed", FALSE, error, None)
            /\ Unchanged
            /\ UNCHANGED preAssign
       ELSE /\ Saved([data EXCEPT !.beds[IntKey(bed_id)] =
                                      assigned_bed(@, patient_id, now)])
            /\ preAssign' = Put(preAssign, IntKey(bed_id), data.beds[IntKey(bed_id)])
            /\ Returned(Ret("assign_bed", TRUE, "Bed assigned successfully", None))

\* release_bed, had it not looked at the bed's status
release_bed_error_any_status(doc, bed_id) ==
    IF IntKey(bed_id) \notin DOMAIN doc.beds THEN "Bed not found" ELSE ""

\* the message release_bed fails with, "" when it goes through
release_bed_error(doc, bed_id) ==
    IF IntKey(bed_id) \notin DOMAIN doc.beds THEN "Bed not found"
    ELSE IF doc.beds[IntKey(bed_id)].status # "occupied" THEN "Bed is not occupied"
    ELSE ""

\* release_bed, had it left the assignment time in place
released_bed_still_stamped(bed) ==
    [bed EXCEPT !.status = "available", !.patient_id = None]

\* the bed after a successful release_bed
released_bed(bed) ==
    [bed EXCEPT !.status = "available", !.patient_id = None, !.assigned_at = None]

release_bed(bed_id) ==
    LET error == release_bed_error(data, bed_id) IN
    /\ UNCHANGED <<now, disk>>
    /\ NoAllocation
    /\ IF error # ""
       THEN /\ result' = Ret("release_bed", FALSE, error, None)
            /\ Unchanged
            /\ UNCHANGED preAssign
       ELSE /\ Saved([data EXCEPT !.beds[IntKey(bed_id)] = released_bed(@)])
            /\ preAssign' = Without(preAssign, IntKey(bed_id))
            /\ Returned(Ret("release_bed", TRUE, "Bed released successfully", None))

----------------------------------------------------------------------------
\* Medicine management

new_medicine(medicine_id, expiry_date, quantity) ==
    [id |-> medicine_id, name |-> "Paracetamol", expiry_date |-> expiry_date,
     quantity |-> quantity, unit_price |-> 550, category |-> "Painkiller",
     minimum_stock_level |-> 10, created_at |-> now]

add_medicine(expiry_date, quantity) ==
    /\ RoomFor(data)
    /\ LET medicine_id == next_id(data, "medicine")
           doc == bump_next_id(data, "medicine")
           medicine == new_medicine(medicine_id, expiry_date, quantity)
       IN  /\ Saved([doc EXCEPT !.medicines = Put(@, IntKey(medicine_id), medicine)])
           /\ Allocated("medicine", medicine_id)
           /\ Returned(Ret("add_medicine", TRUE, "Medicine added successfully", None))
    /\ UNCHANGED <<now, disk, preAssign>>

get_medicine(medicine_id) == Get(data.medicines, IntKey(medicine_id))

get_all_medicines == Values(data.medicines)

\* get_low_stock_medicines, had it compared with <
get_low_stock_medicines_strict ==
    {m \in Values(data.medicines) : m.quantity < m.minimum_stock_level}

get_low_stock_medicines ==
    {m \in Values(data.medicines) : m.quantity <= m.minimum_stock_level}

\* get_expired_medicines, had it compared with <
get_expired_medicines_strict(today) ==
    {m \in Values(data.medicines) :
        str_le(m.expiry_date, today) /\ m.expiry_date # today}

\* get_expired_medicines() on a day whose isoformat() is `today`
get_expired_medicines(today) ==
    {m \in Values(data.medicines) : str_le(m.expiry_date, today)}

update_medicine_stock(medicine_id, new_quantity) ==
    /\ UNCHANGED <<now, disk, preAssign>>
    /\ NoAllocation
    /\ IF IntKey(medicine_id) \notin DOMAIN data.medicines
       THEN /\ result' = Ret("update_medicine_stock", FALSE, "Medicine not found", None)
            /\ Unchanged
       ELSE /\ Saved([data EXCEPT !.medicines[IntKey(medicine_id)].quantity =
                                      new_quantity])
            /\ Returned(Ret("update_medicine_stock", TRUE,
                             "Medicine stock updated successfully", None))

----------------------------------------------------------------------------
\* Dashboard

\* len([b for b in self.data["beds"].values() if b["status"] == status])
beds_with_status(status) ==
    Cardinality({k \in DOMAIN data.beds : data.beds[k].status = status})

\* get_dashboard_stats, had total_patients counted the soft-deleted too
get_dashboard_stats_every_patient(today) ==
    [total_patients |-> Cardinality(DOMAIN data.patients),
     total_doctors |-> Cardinality(DOMAIN data.doctors),
     total_beds |-> Cardinality(DOMAIN data.beds),
     available_beds |-> beds_with_status("available"),
     occupied_beds |-> beds_with_status("occupied"),
     total_medicines |-> Cardinality(DOMAIN data.medicines),
     low_stock_medicines |-> Cardinality(get_low_stock_medicines),
     expired_medicines |-> Cardinality(get_expired_medicines(today))]

\* get_dashboard_stats() on a day whose isoformat() is `today`
get_dashboard_stats(today) ==
    [total_patients |->
         Cardinality({k \in DOMAIN data.patients : data.patients[k].is_active}),
     total_doctors |-> Cardinality(DOMAIN data.doctors),
     total_beds |-> Cardinality(DOMAIN data.beds),
     available_beds |-> beds_with_status("available"),
     occupied_beds |-> beds_with_status("occupied"),
     total_medicines |-> Cardinality(DOMAIN data.medicines),
     low_stock_medicines |-> Cardinality(get_low_stock_medicines),
     expired_medicines |-> Cardinality(get_expired_medicines(today))]

----------------------------------------------------------------------------
\* The environment

\* time passes
Tick ==
    /\ now' \in Instants
    /\ now' > now
    /\ UNCHANGED <<data, blob, disk, result, issued, issuedBefore, preAssign>>

\* the process ends and HealthcareSystem() is constructed again on the file
Restart ==
    /\ data' = load_data(blob)
    /\ issuedBefore' = [k \in Kinds |->
                           issuedBefore[k] \cup {issued[k][i] : i \in DOMAIN issued[k]}]
    /\ issued' = [k \in Kinds |-> <<>>]
    /\ preAssign' = EmptyDict
    /\ result' = Ret("__init__", TRUE, "", None)
    /\ UNCHANGED <<blob, disk, now>>

Next ==
    \/ \E username \in Usernames, password \in Passwords, role \in Roles :
           register_user(username, password, role)
    \/ \E username \in Usernames, password \in Passwords :
           login_user(username, password)
    \/ \E age \in Ages : add_patient(age)
    \/ \E patient_id \in IdArgs, kwargs \in PatientKwargs :
           update_patient(patient_id, kwargs)
    \/ \E patient_id \in IdArgs : delete_patient(patient_id)
    \/ add_doctor
    \/ \E doctor_id \in IdArgs, kwargs \in DoctorKwargs :
           update_doctor(doctor_id, kwargs)
    \/ add_bed
    \/ \E bed_id \in IdArgs, patient_id \in IdArgs : assign_bed(bed_id, patient_id)
    \/ \E bed_id \in IdArgs : release_bed(bed_id)
    \/ \E expiry_date \in ExpiryDates, quantity \in Quantities :
           add_medicine(expiry_date, quantity)
    \/ \E medicine_id \in IdArgs, new_quantity \in Quantities :
           update_medicine_stock(medicine_id, new_quantity)
    \/ Tick
    \/ Restart

Spec == Init /\ [][Next]_vars

\* the medium fails under the program; the model follows it through one
\* failure and does not repair it
DiskFault ==
    /\ disk = "ok"
    /\ disk' \in DiskStates \ {"ok"}
    /\ UNCHANGED <<data, blob, now, result, issued, issuedBefore, preAssign>>

\* main() has no handler: an OSError out of an operation ends the process,
\* and the next thing to happen to the store is its construction
NextIO ==
    \/ result.raises = "" /\ Next
    \/ result.raises # "" /\ Restart
    \/ DiskFault

\* the program on a medium whose writes can fail
SpecIO == Init /\ [][NextIO]_vars

----------------------------------------------------------------------------
\* Properties

\* the collections keyed by numeric identifier
Collections(doc) == <<doc.patients, doc.doctors, doc.beds, doc.medicines>>

\* C1: a store loaded from the file save_data writes returns, for every
\* integer id, the record get_patient/get_doctor/get_bed/get_medicine
\* returned before the reload, holds the same users, and has the same
\* next_ids counters.
C1_RoundTrip ==
    LET reloaded == load_data(save_data(data)) IN
    /\ reloaded.users = data.users
    /\ reloaded.next_ids = data.next_ids
    /\ \A c \in 1..4 : \A id \in IdArgs :
          Get(Collections(reloaded)[c], IntKey(id))
              = Get(Collections(data)[c], IntKey(id))

\* C2: within one instance the ids get_next_id returns for a kind strictly
\* increase by one from the first (1, 2, 3, ... in an instance that started
\* empty), the counter stays ahead of them, and no two records of a kind
\* carry the same id.
C2_IdsStrictlyIncrease ==
    /\ \A k \in Kinds : \A i \in DOMAIN issued[k] :
          /\ issuedBefore[k] = {} => issued[k][i] = i
          /\ i > 1 => issued[k][i] = issued[k][i - 1] + 1
          /\ issued[k][i] < data.next_ids[k]
    /\ \A c \in 1..4 : \A k1, k2 \in DOMAIN Collections(data)[c] :
          k1 # k2 => Collections(data)[c][k1].id # Collections(data)[c][k2].id
    /\ \A u1, u2 \in DOMAIN data.users :
          u1 # u2 => data.users[u1].id # data.users[u2].id

\* C2's case: two patients were created and one of them is soft-deleted.
C2_Witness ==
    /\ issuedBefore["patient"] = {}
    /\ Len(issued["patient"]) = 2
    /\ \E p \in Values(data.patients) : ~p.is_active

\* C3: after a restart that loaded the file, every id allocated for a kind
\* is greater than every id of that kind allocated before the restart, and
\* a record created after the restart has a greater id than every record
\* loaded from the file.
C3_IdsContinueAcrossRestart ==
    /\ \A k \in Kinds : \A i \in DOMAIN issued[k] : \A j \in issuedBefore[k] :
          issued[k][i] > j
    /\ \A c \in 1..4 : \A k1, k2 \in DOMAIN Collections(data)[c] :
          (k1[1] = "int" /\ k2[1] = "str")
              => Collections(data)[c][k1].id > Collections(data)[c][k2].id

\* C3's case: a bed was created, the store restarted, a bed was created.
C3_Witness ==
    /\ issuedBefore["bed"] # {}
    /\ issued["bed"] # <<>>
    /\ Cardinality(DOMAIN data.beds) = 2

\* C4: for every bed, status is "available" or "occupied", and status is
\* "occupied" iff patient_id is set iff assigned_at is set.
C4_BedInvariant ==
    \A bed \in Values(data.beds) :
        /\ bed.status \in {"available", "occupied"}
        /\ bed.status = "occupied" <=> bed.patient_id # None
        /\ bed.patient_id # None <=> bed.assigned_at # None

\* C4's case: assign_bed has just occupied a bed.
C4_Witness ==
    /\ result.op = "assign_bed" /\ result.success
    /\ \E bed \in Values(data.beds) : bed.status = "occupied"

\* the bed stored under key k, where it is after the step (a restart
\* reloads it under the string of its key)
BedAfter(k) ==
    IF k \in DOMAIN data'.beds THEN data'.beds[k] ELSE data'.beds[json_key(k)]

KnownBed(bed_id) == IntKey(bed_id) \in DOMAIN data.beds
KnownPatient(patient_id) == IntKey(patient_id) \in DOMAIN data.patients

\* C5 as claimed: assign_bed on a bed that is not available fails with
\* "Bed is not available" for every patient id.
C5_AsClaimed ==
    [][\A bed_id \in IdArgs, patient_id \in IdArgs :
          (/\ KnownBed(bed_id)
           /\ data.beds[IntKey(bed_id)].status # "available"
           /\ assign_bed(bed_id, patient_id))
              => result'.message = "Bed is not available"]_vars

\* C5 as amended: assign_bed on a bed that is not available fails for every
\* patient id and changes nothing: with "Bed is not available" when the
\* patient id is known, with "Patient not found" when it is not. An
\* occupied bed keeps its patient_id and assigned_at in every step that is
\* not a successful release_bed of that bed.
C5_NoSecondPatient ==
    [][/\ \A bed_id \in IdArgs, patient_id \in IdArgs :
             (/\ KnownBed(bed_id)
              /\ data.beds[IntKey(bed_id)].status # "available"
              /\ assign_bed(bed_id, patient_id))
                 => /\ ~result'.success
                    /\ result'.message =
                          IF KnownPatient(patient_id) THEN "Bed is not available"
                          ELSE "Patient not found"
                    /\ data' = data
       /\ \A k \in DOMAIN data.beds :
             data.beds[k].status # "available"
                 => \/ /\ BedAfter(k).patient_id = data.beds[k].patient_id
                       /\ BedAfter(k).assigned_at = data.beds[k].assigned_at
                    \/ \E bed_id \in IdArgs :
                          /\ IntKey(bed_id) = k
                          /\ release_bed(bed_id)
                          /\ result'.success]_vars

\* C5's case: assign_bed was called on an occupied bed with a known patient.
C5_Witness ==
    /\ result.op = "assign_bed"
    /\ result.message = "Bed is not available"
    /\ \E bed \in Values(data.beds) : bed.status = "occupied"

\* C6: release_bed succeeds exactly when the bed id is a key of the beds
\* collection and that bed is occupied; on an unknown id it fails with
\* "Bed not found", on a known bed that is available with "Bed is not
\* occupied".
C6_ReleaseOutcome ==
    [][\A bed_id \in IdArgs :
          release_bed(bed_id)
              => /\ result'.success
                      <=> (KnownBed(bed_id)
                           /\ data.beds[IntKey(bed_id)].status = "occupied")
                 /\ ~KnownBed(bed_id) => result'.message = "Bed not found"
                 /\ (KnownBed(bed_id)
                     /\ data.beds[IntKey(bed_id)].status = "available")
                        => result'.message = "Bed is not occupied"]_vars

\* C6's case: release_bed was called on a bed that had been released.
C6_Witness ==
    /\ result.op = "release_bed"
    /\ result.message = "Bed is not occupied"
    /\ \E bed \in Values(data.beds) : bed.status = "available"

\* C7: a successful release_bed after a successful assign_bed leaves the bed
\* record as it was just before the assign: status "available", patient_id
\* and assigned_at None, the other fields unchanged.
C7_AssignThenRelease ==
    [][\A bed_id \in IdArgs :
          (release_bed(bed_id) /\ result'.success)
              => /\ IntKey(bed_id) \in DOMAIN preAssign
                 /\ data'.beds[IntKey(bed_id)] = preAssign[IntKey(bed_id)]
                 /\ data'.beds[IntKey(bed_id)].status = "available"
                 /\ data'.beds[IntKey(bed_id)].patient_id = None
                 /\ data'.beds[IntKey(bed_id)].assigned_at = None]_vars

\* C7's case: a bed was assigned and then released.
C7_Witness ==
    /\ result.op = "release_bed" /\ result.success
    /\ \E bed \in Values(data.beds) : bed.status = "available"

\* C8: every occupied bed has a patient_id under which the patients
\* collection holds a record whose is_active flag is true.
C8_OccupiedBedHasActivePatient ==
    \A bed \in Values(data.beds) :
        bed.status = "occupied"
            => \E p \in Values(data.patients) :
                  Some(p.id) = bed.patient_id /\ p.is_active

\* C9: register_user with a username that is a key of users fails with
\* "Username already exists" and leaves the stored user record, and the
\* rest of the store, as it was, whatever the other arguments.
C9_DuplicateUsername ==
    [][\A username \in Usernames, password \in Passwords, role \in Roles :
          (username \in DOMAIN data.users
           /\ register_user(username, password, role))
              => /\ ~result'.success
                 /\ result'.message = "Username already exists"
                 /\ data'.users[username] = data.users[username]
                 /\ data' = data]_vars

\* C9's case: register_user was called with a registered username.
C9_Witness ==
    /\ result.op = "register_user"
    /\ ~result.success
    /\ data.users # EmptyDict

\* C10: login_user(u, p) succeeds, returning the user record, iff u is
\* registered, the user is active and the digest of p is the stored
\* password_hash; otherwise it returns one of "User not found", "Invalid
\* password", "Account deactivated" and no user record.
C10_LoginOutcome ==
    [][\A username \in Usernames, password \in Passwords :
          login_user(username, password)
              => LET ok == /\ username \in DOMAIN data.users
                           /\ data.users[username].is_active
                           /\ hash_password(password) =
                                  data.users[username].password_hash
                 IN  /\ result'.success <=> ok
                     /\ ok => result'.user = Some(data.users[username])
                     /\ ~ok => /\ result'.user = None
                               /\ result'.message \in
                                     {"User not found", "Invalid password",
                                      "Account deactivated"}]_vars

\* C10's case: a login with the registered password went through.
C10_Witness ==
    /\ result.op = "login_user"
    /\ result.success
    /\ result.user # None

\* C11: after a successful delete_patient(id) no record of get_all_patients()
\* has that id, and get_patient(id) returns the record as it was but with
\* is_active false.
C11_SoftDelete ==
    [][\A patient_id \in IdArgs :
          (/\ KnownPatient(patient_id)
           /\ result'.op = "delete_patient"
           /\ delete_patient(patient_id))
              => /\ result'.success
                 /\ \A p \in Values(data'.patients) :
                       p.is_active => p.id # patient_id
                 /\ Get(data'.patients, IntKey(patient_id)) =
                       Some([data.patients[IntKey(patient_id)]
                                EXCEPT !.is_active = FALSE])]_vars

\* C11's case: delete_patient has just soft-deleted a patient.
C11_Witness ==
    /\ result.op = "delete_patient" /\ result.success
    /\ \E p \in Values(data.patients) : ~p.is_active /\ p \notin get_all_patients

\* C12: within a store instance (every step but a restart) the keys of each
\* of the five collections only grow.
C12_NoHardDelete ==
    [][result'.op # "__init__"
          => /\ DOMAIN data.users \subseteq DOMAIN data'.users
             /\ DOMAIN data.patients \subseteq DOMAIN data'.patients
             /\ DOMAIN data.doctors \subseteq DOMAIN data'.doctors
             /\ DOMAIN data.beds \subseteq DOMAIN data'.beds
             /\ DOMAIN data.medicines \subseteq DOMAIN data'.medicines]_vars

\* C12's case: a patient was soft-deleted and a bed released, and both
\* records are still there.
C12_Witness ==
    /\ result.op = "release_bed" /\ result.success
    /\ \E p \in Values(data.patients) : ~p.is_active
    /\ data.beds # EmptyDict

\* the record `new` is `old` with the fields of kwargs that `old` has, other
\* than id and created_at, overwritten, and nothing else changed or added
UpdatedBy(old, new, kwargs) ==
    /\ DOMAIN new = DOMAIN old
    /\ new.id = old.id
    /\ new.created_at = old.created_at
    /\ \A f \in (DOMAIN old) \ {"id", "created_at"} :
          new[f] = IF f \in DOMAIN kwargs THEN kwargs[f] ELSE old[f]

\* C13: update_patient and update_doctor on a known id succeed and overwrite
\* only the supplied fields the record already has; id and created_at are
\* never changed, unknown names add no field, other fields keep their values.
C13_UpdateFrame ==
    [][/\ \A patient_id \in IdArgs, kwargs \in PatientKwargs :
             (/\ KnownPatient(patient_id)
              /\ result'.op = "update_patient"
              /\ update_patient(patient_id, kwargs))
                 => /\ result'.success
                    /\ UpdatedBy(data.patients[IntKey(patient_id)],
                                 data'.patients[IntKey(patient_id)], kwargs)
       /\ \A doctor_id \in IdArgs, kwargs \in DoctorKwargs :
             (/\ IntKey(doctor_id) \in DOMAIN data.doctors
              /\ result'.op = "update_doctor"
              /\ update_doctor(doctor_id, kwargs))
                 => /\ result'.success
                    /\ UpdatedBy(data.doctors[IntKey(doctor_id)],
                                 data'.doctors[IntKey(doctor_id)], kwargs)]_vars

\* C13's case: update_doctor was called with shift, id, created_at and an
\* unknown name, and overwrote the shift.
C13_Witness ==
    /\ result.op = "update_doctor" /\ result.success
    /\ \E d \in Values(data.doctors) : d.shift = "Night"

\* the operations that end with self.save_data()
MutatingOps ==
    {"register_user", "add_patient", "update_patient", "delete_patient",
     "add_doctor", "update_doctor", "add_bed", "assign_bed", "release_bed",
     "add_medicine", "update_medicine_stock"}

\* C14: after a mutating operation that returned success the file holds the
\* serialization of the whole in-memory document: read back, it gives the
\* records of all five collections and the counters as they are in memory.
C14_WriteThrough ==
    (result.success /\ result.op \in MutatingOps)
        => /\ blob = Some(json_dump(data))
           /\ LET reread == load_data(blob) IN
              /\ reread.next_ids = data.next_ids
              /\ Values(reread.users) = Values(data.users)
              /\ Values(reread.patients) = Values(data.patients)
              /\ Values(reread.doctors) = Values(data.doctors)
              /\ Values(reread.beds) = Values(data.beds)
              /\ Values(reread.medicines) = Values(data.medicines)

\* C14's case: a bed assignment has just succeeded and is in the file.
C14_Witness ==
    /\ result.op = "assign_bed" /\ result.success
    /\ blob # <<>>
    /\ \E b \in Values(load_data(blob).beds) : b.status = "occupied"

\* C15: a store constructed on a file that does not parse, or on no file,
\* comes up without an error and empty: all five collections empty and
\* every counter 1.
C15_CorruptBlobStartsFresh ==
    (result.op = "__init__" /\ (blob = <<>> \/ ~json_parses(blob[1])))
        => /\ result.success /\ result.raises = ""
           /\ data.users = EmptyDict
           /\ data.patients = EmptyDict
           /\ data.doctors = EmptyDict
           /\ data.beds = EmptyDict
           /\ data.medicines = EmptyDict
           /\ \A k \in Kinds : data.next_ids[k] = 1

\* C15's case: a store that had handed out ids was constructed again on a
\* truncated file.
C15_Witness ==
    /\ result.op = "__init__"
    /\ blob # <<>> /\ ~json_parses(blob[1])
    /\ \E k \in Kinds : issuedBefore[k] # {}

\* C16: a mutating operation called while the file cannot be written never
\* returns success: either it returned a structured error before it wrote
\* anything, or OSError left it, which is no structured result; the
\* operations without an error return always end that way.
C16_WriteFailureRaises ==
    [][(disk # "ok" /\ disk' = disk /\ now' = now /\ result'.op \in MutatingOps)
          => /\ ~result'.success
             /\ \/ result'.raises = "OSError" /\ result'.message = ""
                \/ result'.raises = "" /\ result'.message # ""
                      /\ data' = data /\ blob' = blob
             /\ result'.op \in {"add_patient", "add_doctor", "add_bed", "add_medicine"}
                   => result'.raises = "OSError"]_vars

\* C16's case: add_patient was called on a full medium and raised.
C16_Witness ==
    /\ result.op = "add_patient" /\ result.raises = "OSError"
    /\ disk = "full"
    /\ data.patients # EmptyDict

\* C17: get_low_stock_medicines() returns exactly the medicines whose
\* quantity is at most their minimum_stock_level, as they are stored at the
\* time of the call: a quantity equal to the level is in, one above is out.
C17_LowStock ==
    /\ get_low_stock_medicines \subseteq get_all_medicines
    /\ \A m \in get_all_medicines :
          /\ m \in get_low_stock_medicines
                <=> m.quantity \in 0..m.minimum_stock_level
          /\ m.quantity = m.minimum_stock_level => m \in get_low_stock_medicines
          /\ m.quantity = m.minimum_stock_level + 10
                => m \notin get_low_stock_medicines

\* C17's case: update_medicine_stock has set a quantity, a medicine stands
\* exactly at its level and is reported, and another above it is not.
C17_Witness ==
    /\ result.op = "update_medicine_stock" /\ result.success
    /\ \E m \in get_low_stock_medicines : m.quantity = m.minimum_stock_level
    /\ \E m \in get_all_medicines : m \notin get_low_stock_medicines

\* the day a is on or before the day b
OnOrBefore(a, b) ==
    \/ a[1] < b[1]
    \/ a[1] = b[1] /\ a[2] < b[2]
    \/ a[1] = b[1] /\ a[2] = b[2] /\ a[3] <= b[3]

\* days whose order is decided by the year, by the month, by the day, and
\* by a digit that only zero padding puts in place
SampleDays ==
    {<<2024, 6, 30>>, <<2024, 6, 29>>, <<2024, 7, 1>>, <<2024, 10, 1>>,
     <<2024, 9, 30>>, <<2025, 1, 1>>, <<2025, 12, 31>>, <<999, 12, 31>>}

\* on well-formed dates the order of the strings is the order of the days
StringOrderIsDayOrder ==
    \A a \in SampleDays, b \in SampleDays :
        str_le(isoformat(a), isoformat(b)) <=> OnOrBefore(a, b)

\* C18: get_expired_medicines() returns exactly the medicines whose expiry
\* day is on or before today: expiring today is in, expiring tomorrow is out;
\* on 2025-01-01 "2024-06-30" is returned and "2025-12-31" is not.
C18_Expired ==
    /\ StringOrderIsDayOrder
    /\ ~str_le(isoformat(<<2025, 12, 31>>), isoformat(<<2025, 1, 1>>))
    /\ \A today \in TodayDays :
          get_expired_medicines(isoformat(today)) =
              {m \in get_all_medicines :
                  \E expiry \in ExpiryDays :
                      /\ m.expiry_date = isoformat(expiry)
                      /\ OnOrBefore(expiry, today)}

\* C18's case: a stored medicine that is reported on its expiry day and on
\* 2025-01-01 and is not reported the day before it expires.
C18_Witness ==
    /\ result.op = "add_medicine" /\ result.success
    /\ \E m \in get_all_medicines :
          /\ m.expiry_date = isoformat(<<2024, 6, 30>>)
          /\ m \in get_expired_medicines(isoformat(<<2024, 6, 30>>))
          /\ m \in get_expired_medicines(isoformat(<<2025, 1, 1>>))
          /\ m \notin get_expired_medicines(isoformat(<<2024, 6, 29>>))

\* C19: assign_bed does not look at the patient's active flag: with a known
\* soft-deleted patient and a known available bed it succeeds and leaves the
\* bed occupied with that patient_id.
C19_AssignToInactivePatient ==
    [][\A bed_id \in IdArgs, patient_id \in IdArgs :
          (/\ KnownBed(bed_id)
           /\ KnownPatient(patient_id)
           /\ ~data.patients[IntKey(patient_id)].is_active
           /\ data.beds[IntKey(bed_id)].status = "available"
           /\ result'.op = "assign_bed"
           /\ assign_bed(bed_id, patient_id))
              => /\ result'.success
                 /\ data'.beds[IntKey(bed_id)].status = "occupied"
                 /\ data'.beds[IntKey(bed_id)].patient_id = Some(patient_id)]_vars

\* C19's case: assign_bed has just put a soft-deleted patient in a bed.
C19_Witness ==
    /\ result.op = "assign_bed" /\ result.success
    /\ \E bed \in Values(data.beds), p \in Values(data.patients) :
          /\ bed.status = "occupied"
          /\ bed.patient_id = Some(p.id)
          /\ ~p.is_active

\* C20: in every dashboard available_beds + occupied_beds = total_beds, and
\* total_patients is the length of get_all_patients(): soft-deleted
\* patients are not counted.
C20_Dashboard ==
    \A today \in TodayDays :
        LET stats == get_dashboard_stats(isoformat(today)) IN
        /\ stats.available_beds + stats.occupied_beds = stats.total_beds
        /\ stats.total_patients = Cardinality(get_all_patients)
        /\ stats.total_patients
              = Cardinality(DOMAIN data.patients)
                   - Cardinality({p \in Values(data.patients) : ~p.is_active})

\* C20's case: one occupied bed, and its patient soft-deleted and so not
\* counted.
C20_Witness ==
    LET stats == get_dashboard_stats(isoformat(<<2025, 1, 1>>)) IN
    /\ result.op = "delete_patient" /\ result.success
    /\ stats.total_beds = 1 /\ stats.occupied_beds = 1 /\ stats.available_beds = 0
    /\ stats.total_patients = 0
    /\ data.patients # EmptyDict

\* C21: an operation that returns a failure result leaves the five
\* collections and the counters as they were and does not write the file;
\* a failed register_user takes no id from the user counter.
C21_FailureChangesNothing ==
    [][(/\ ~result'.success
        /\ result'.raises = ""
        /\ result'.op \in MutatingOps \cup {"login_user"})
          => /\ data'.users = data.users
             /\ data'.patients = data.patients
             /\ data'.doctors = data.doctors
             /\ data'.beds = data.beds
             /\ data'.medicines = data.medicines
             /\ data'.next_ids = data.next_ids
             /\ blob' = blob
             /\ issued' = issued]_vars

\* C21's case: register_user has failed on a duplicate username, and the
\* user counter stands where the one registration left it.
C21_Witness ==
    /\ result.op = "register_user" /\ ~result.success
    /\ result.message = "Username already exists"
    /\ data.next_ids["user"] = 2
    /\ Len(issued["user"]) = 1

\* the patient stored under key k, where it is after the step (a restart
\* reloads it under the string of its key)
PatientAfter(k) ==
    IF k \in DOMAIN data'.patients
    THEN data'.patients[k] ELSE data'.patients[json_key(k)]

\* C22: a soft-deleted patient stays inactive through every step other than
\* an update_patient call on its id that supplies is_active: no other
\* operation, no update_patient on another id and no update_patient
\* without is_active makes it active; update_patient(id, is_active=True)
\* does.
C22_StaysInactive ==
    [][\A k \in DOMAIN data.patients :
          ~data.patients[k].is_active
              => /\ PatientAfter(k).is_active => result'.op = "update_patient"
                 /\ result'.op = "update_patient"
                       => \A patient_id \in IdArgs, kwargs \in PatientKwargs :
                             update_patient(patient_id, kwargs)
                                 => IF /\ IntKey(patient_id) = k
                                       /\ "is_active" \in DOMAIN kwargs
                                    THEN PatientAfter(k).is_active = kwargs.is_active
                                    ELSE ~PatientAfter(k).is_active]_vars

\* C22's case: a patient was soft-deleted, then put in a bed and the bed
\* released, and is still inactive.
C22_Witness ==
    /\ result.op = "release_bed" /\ result.success
    /\ get_all_patients = {}
    /\ \E p \in Values(data.patients), bed \in Values(data.beds) :
          /\ ~p.is_active
          /\ bed.status = "available"
          /\ bed.created_at < p.created_at

====
